---- MODULE Spec2Model ----
(***************************************************************************)
(* Model of scripts/fetch_huggingface_dataset.py: one run of the script    *)
(* loads the remote dataset, projects it onto the wanted columns, writes   *)
(* public/synthetic_profiles.csv, aggregates the rows per persona and URL  *)
(* and writes public/profiles.json.                                        *)
(*                                                                         *)
(* Python strings are sequences of code points, so that str.lower() and    *)
(* the ordering of str are computed and not assumed.  Column names are     *)
(* only ever compared for equality and are TLA+ strings.                   *)
(***************************************************************************)
EXTENDS Integers, Sequences, FiniteSets, TLC

VARIABLES
    pc,            \* position of the run in the script
    run,           \* 1 for the first invocation, 2 for the second
    force,         \* `force` of __main__, passed to fetch_dataset
    source,        \* the remote dataset (split "train"), unchanged by the script
    tieBreak,      \* which of several rows with an equal sort key sort_values puts first
    loadCall,      \* arguments of the last load_dataset call
    df,            \* the DataFrame `df`
    csvFile,       \* public/synthetic_profiles.csv
    jsonFile,      \* public/profiles.json
    personas,      \* labels the loop of generate_profiles has still to process
    all_profiles,  \* the dict `all_profiles`, in insertion order
    err,           \* the exception that ended the run, "" while there is none
    failedAt,      \* the position at which that exception was raised
    steps,         \* the steps this run has completed, in order
    csv0,          \* the CSV file as the current run found it
    json0,         \* the JSON file as the current run found it
    first          \* what the first run did, kept for comparison with the second

vars == <<pc, run, force, source, tieBreak, loadCall, df, csvFile, jsonFile,
          personas, all_profiles, err, failedAt, steps, csv0, json0, first>>

----------------------------------------------------------------------------
(* Bounds of the input tables *)

MaxRows == 3

----------------------------------------------------------------------------
(* Python str *)

Range(s) == {s[i] : i \in DOMAIN s}

\* str.lower() on ASCII: 'A'..'Z' (65..90) map to 'a'..'z' (97..122)
lower(s) == [i \in DOMAIN s |-> IF s[i] \in 65..90 THEN s[i] + 32 ELSE s[i]]

\* a < b on str: lexicographic by code point, a proper prefix is smaller
RECURSIVE StrLess(_, _)
StrLess(a, b) ==
    IF b = <<>> THEN FALSE
    ELSE IF a = <<>> THEN TRUE
    ELSE IF a[1] # b[1] THEN a[1] < b[1]
    ELSE StrLess(Tail(a), Tail(b))

\* list insertion keeping ascending order, equal keys after the ones present
RECURSIVE InsertSorted(_, _)
InsertSorted(x, s) ==
    IF s = <<>> THEN <<x>>
    ELSE IF StrLess(x, Head(s)) THEN <<x>> \o s
    ELSE <<Head(s)>> \o InsertSorted(x, Tail(s))

\* sorted(values)
RECURSIVE sorted(_)
sorted(s) ==
    IF s = <<>> THEN <<>>
    ELSE InsertSorted(s[Len(s)], sorted(SubSeq(s, 1, Len(s) - 1)))

\* Series.unique(): the distinct values in order of first appearance
RECURSIVE unique(_)
unique(s) ==
    IF s = <<>> THEN <<>>
    ELSE LET u == unique(SubSeq(s, 1, Len(s) - 1))
         IN  IF s[Len(s)] \in Range(u) THEN u ELSE Append(u, s[Len(s)])

----------------------------------------------------------------------------
(* The script's constants *)

columns_to_keep ==
    <<"persona", "visit_id", "visit_time", "visit_description", "place_id",
      "url", "title", "domain", "visit_count", "interest", "title_name">>

BookmarkThreshold == 3

\* as if the flag were passed on as download_mode
load_dataset_args_forced(force_refresh) ==
    [path |-> "zijuncheng/synthetic_profiles_ver_1", split |-> "train",
     download_mode |-> IF force_refresh THEN "force_redownload"
                       ELSE "reuse_dataset_if_exists"]

\* load_dataset("zijuncheng/synthetic_profiles_ver_1", split="train"):
\* force_refresh is not among the arguments, download_mode keeps its default
load_dataset_args(force_refresh) ==
    [path |-> "zijuncheng/synthetic_profiles_ver_1", split |-> "train",
     download_mode |-> "reuse_dataset_if_exists"]

\* force = "--force" in sys.argv or "-f" in sys.argv
ParseForce(argv) == "--force" \in argv \/ "-f" \in argv

----------------------------------------------------------------------------
(* pandas and dict operations used by the script *)

\* a dict in insertion order: a sequence of [key, value] with distinct keys
DictKeys(d) == [i \in DOMAIN d |-> d[i].key]

DictHas(d, k) == \E i \in DOMAIN d : d[i].key = k

DictGet(d, k) == d[CHOOSE i \in DOMAIN d : d[i].key = k].value

\* as if every assignment added an entry
DictAppend(d, k, v) == Append(d, [key |-> k, value |-> v])

\* as if a present key kept the entries of its old value that the new one lacks
DictSetMerge(d, k, v) ==
    IF DictHas(d, k)
    THEN [i \in DOMAIN d |->
            IF d[i].key = k
            THEN [key |-> k,
                  value |-> LET Kept(e) == ~DictHas(v, e.key)
                            IN  SelectSeq(d[i].value, Kept) \o v]
            ELSE d[i]]
    ELSE Append(d, [key |-> k, value |-> v])

\* d[k] = v: a present key keeps its place and gets the new value
DictSet(d, k, v) ==
    IF DictHas(d, k)
    THEN [i \in DOMAIN d |-> IF d[i].key = k THEN [key |-> k, value |-> v] ELSE d[i]]
    ELSE Append(d, [key |-> k, value |-> v])

\* df[col] as a list of values
Column(frame, col) == [i \in DOMAIN frame.rows |-> frame.rows[i][col]]

\* Series.get(key, default)
SeriesGet(row, key, default) == IF key \in DOMAIN row THEN row[key] ELSE default

\* as if the table's own column order were kept
AvailableColumnsBySchema(frame) ==
    LET Wanted(col) == col \in Range(columns_to_keep)
    IN  SelectSeq(frame.columns, Wanted)

\* available_columns = [col for col in columns_to_keep if col in df.columns]
AvailableColumns(frame) ==
    LET Present(col) == col \in Range(frame.columns)
    IN  SelectSeq(columns_to_keep, Present)

\* df[available_columns]
ProjectColumns(frame) ==
    LET cols == AvailableColumns(frame)
    IN  [columns |-> cols,
         rows    |-> [i \in DOMAIN frame.rows |->
                         [c \in Range(cols) |-> frame.rows[i][c]]]]

\* df.to_csv(path, index=False): the header line, then one line per row
to_csv(frame) ==
    [header |-> frame.columns,
     rows   |-> [i \in DOMAIN frame.rows |->
                    [j \in DOMAIN frame.columns |-> frame.rows[i][frame.columns[j]]]]]

\* as if the visit times were compared as numbers
TimeLessNumeric(a, b) == Len(a) < Len(b) \/ (Len(a) = Len(b) /\ StrLess(a, b))

\* the order sort_values('visit_time') compares by: str order
TimeLess(a, b) == StrLess(a, b)

RemoveAt(s, k) == SubSeq(s, 1, k - 1) \o SubSeq(s, k + 1, Len(s))

\* group.sort_values('visit_time', ascending=False); rows with equal keys come
\* in the order the sort algorithm leaves them, which tb stands for
RECURSIVE sort_values_desc(_, _)
sort_values_desc(rows, tb) ==
    IF rows = <<>> THEN <<>>
    ELSE LET top == {i \in DOMAIN rows : \A j \in DOMAIN rows :
                        ~TimeLess(rows[i]["visit_time"], rows[j]["visit_time"])}
             k   == IF tb = "first"
                    THEN CHOOSE i \in top : \A j \in top : i <= j
                    ELSE CHOOSE i \in top : \A j \in top : i >= j
         IN  <<rows[k]>> \o sort_values_desc(RemoveAt(rows, k), tb)

\* as if the threshold were exclusive
URLSummaryStrict(group, tb) ==
    LET latest_visit == Head(sort_values_desc(group, tb))
        visit_count  == Len(group)
    IN  [title         |-> SeriesGet(latest_visit, "title", <<>>),
         visits        |-> visit_count,
         bookmarked    |-> visit_count > BookmarkThreshold,
         lastVisitTime |-> SeriesGet(latest_visit, "visit_time", <<>>)]

\* one URLSummary, lines 85-98
URLSummary(group, tb) ==
    LET latest_visit == Head(sort_values_desc(group, tb))
        visit_count  == Len(group)
    IN  [title         |-> SeriesGet(latest_visit, "title", <<>>),
         visits        |-> visit_count,
         bookmarked    |-> visit_count >= BookmarkThreshold,
         lastVisitTime |-> SeriesGet(latest_visit, "visit_time", <<>>)]

\* as if the rows were not filtered by persona
RowsOfAnyPersona(frame, persona) == frame.rows

\* persona_df = df[df['persona'] == persona]
PersonaRows(frame, persona) ==
    LET Match(r) == r["persona"] = persona
    IN  SelectSeq(frame.rows, Match)

\* the loop over persona_df.groupby('url'): groups in ascending key order
RECURSIVE ProfileOfGroups(_, _, _)
ProfileOfGroups(urls, rows, tb) ==
    IF urls = <<>> THEN <<>>
    ELSE LET url      == urls[Len(urls)]
             InGroup(r) == r["url"] = url
             group    == SelectSeq(rows, InGroup)
         IN  DictSet(ProfileOfGroups(SubSeq(urls, 1, Len(urls) - 1), rows, tb),
                     url, URLSummary(group, tb))

\* profile_data of one persona, lines 75-98
ProfileData(frame, persona, tb) ==
    LET rows == PersonaRows(frame, persona)
        urls == sorted(unique([i \in DOMAIN rows |-> rows[i]["url"]]))
    IN  ProfileOfGroups(urls, rows, tb)

----------------------------------------------------------------------------
(* The input tables.  The dataset has at least one row and every value is a  *)
(* str, as in the published dataset; missing values are not modelled.  The  *)
(* labels "Te" and "te" collide after lower(), "st" sorts between them; the *)
(* visit times "10" and "9" order differently as str and as numbers.        *)

L_Te == <<84, 101>>     \* "Te"
L_st == <<115, 116>>    \* "st"
L_te == <<116, 101>>    \* "te"
U_x  == <<120>>         \* "x"
U_y  == <<121>>         \* "y"
T_10 == <<49, 48>>      \* "10"
T_9  == <<57>>          \* "9"
S_A  == <<65>>          \* "A"
S_B  == <<66>>          \* "B"
S_1  == <<49>>          \* "1"

Labels == {L_Te, L_st, L_te}
Urls   == {U_x, U_y}
Times  == {T_10, T_9}
Titles == {S_A, S_B}

\* "id" is a column of the dataset the script does not keep
SourceColumns == {"persona", "url", "visit_time", "title", "id"}

FullSchema == <<"id", "url", "persona", "title", "visit_time">>

Row(p, u, t, s) ==
    [c \in SourceColumns |->
        CASE c = "persona" -> p [] c = "url" -> u [] c = "visit_time" -> t
          [] c = "title" -> s [] OTHER -> S_1]

Table(schema, fullRows) ==
    [columns |-> schema,
     rows    |-> [i \in DOMAIN fullRows |-> [c \in Range(schema) |-> fullRows[i][c]]]]

SeqsUpTo(S, n) == UNION {[1..k -> S] : k \in 1..n}

\* every order of every non-empty choice of the dataset's columns
Schemas ==
    {s \in SeqsUpTo(SourceColumns, Cardinality(SourceColumns)) :
        \A i, j \in DOMAIN s : i # j => s[i] # s[j]}

\* The tables are: up to MaxRows rows that differ in persona and URL only; up
\* to MaxRows rows of one persona and URL that differ in visit time and title;
\* every pair of rows whatever; and two fixed rows under every schema.
CountingRows == {Row(p, u, T_9, S_A) : p \in Labels, u \in Urls}

\* rows of one persona and URL that differ in visit time and title
VisitRows == {Row(L_st, U_x, t, s) : t \in Times, s \in Titles}

AllRows == {Row(p, u, t, s) : p \in Labels, u \in Urls, t \in Times, s \in Titles}

SchemaRows == <<Row(L_Te, U_x, T_9, S_A), Row(L_st, U_y, T_10, S_B)>>

Tables ==
    {Table(FullSchema, rs) : rs \in SeqsUpTo(CountingRows, MaxRows)}
    \cup {Table(FullSchema, rs) : rs \in SeqsUpTo(VisitRows, MaxRows)}
    \cup {Table(FullSchema, <<a, b>>) : a \in AllRows, b \in AllRows}
    \cup {Table(s, SchemaRows) : s \in Schemas}

----------------------------------------------------------------------------
(* Files *)

NoCsv == [header |-> <<>>, rows |-> <<>>]

AbsentCsv == [state |-> "absent", content |-> NoCsv]
StaleCsv  == [state |-> "written", content |-> [header |-> <<"old">>, rows |-> <<>>]]
PartialCsv == [state |-> "partial", content |-> NoCsv]

AbsentJson == [state |-> "absent", content |-> <<>>]
StaleJson  == [state |-> "written", content |-> <<[key |-> <<111>>, value |-> <<>>]>>]
PartialJson == [state |-> "partial", content |-> <<>>]

NoFrame == [columns |-> <<>>, rows |-> <<>>]
NoCall  == [path |-> "", split |-> "", download_mode |-> ""]
NoFirst == [force |-> FALSE, loadCall |-> NoCall, csv |-> AbsentCsv, json |-> AbsentJson]

----------------------------------------------------------------------------
(* The run *)

Init ==
    /\ pc = "main"
    /\ run = 1
    /\ force = FALSE
    /\ source \in Tables
    /\ tieBreak \in {"first", "last"}
    /\ loadCall = NoCall
    /\ df = NoFrame
    /\ csvFile \in {AbsentCsv, StaleCsv}
    /\ jsonFile \in {AbsentJson, StaleJson}
    /\ personas = <<>>
    /\ all_profiles = <<>>
    /\ err = ""
    /\ failedAt = ""
    /\ steps = <<>>
    /\ csv0 = csvFile
    /\ json0 = jsonFile
    /\ first = NoFirst

\* an exception nothing catches: the run ends where it is
Raise(e) ==
    /\ err' = e
    /\ failedAt' = pc
    /\ pc' = "failed"

\* __main__, lines 111-113
Main ==
    /\ pc = "main"
    /\ \E argv \in SUBSET {"--force", "-f"} : force' = ParseForce(argv)
    /\ pc' = "load"
    /\ UNCHANGED <<run, source, tieBreak, loadCall, df, csvFile, jsonFile, personas,
                   all_profiles, err, failedAt, steps, csv0, json0, first>>

\* lines 28-36: the dataset is retrieved and converted
Load ==
    /\ pc = "load"
    /\ loadCall' = load_dataset_args(force)
    /\ df' = source
    /\ steps' = Append(steps, "load")
    /\ pc' = "project"
    /\ UNCHANGED <<run, force, source, tieBreak, csvFile, jsonFile, personas,
                   all_profiles, err, failedAt, csv0, json0, first>>

\* line 31 raises: the remote source is unreachable
LoadFail ==
    /\ pc = "load"
    /\ loadCall' = load_dataset_args(force)
    /\ Raise("RetrievalError")
    /\ UNCHANGED <<run, force, source, tieBreak, df, csvFile, jsonFile, personas,
                   all_profiles, steps, csv0, json0, first>>

\* lines 39-47
Project ==
    /\ pc = "project"
    /\ df' = ProjectColumns(df)
    /\ pc' = "to_csv"
    /\ UNCHANGED <<run, force, source, tieBreak, loadCall, csvFile, jsonFile, personas,
                   all_profiles, err, failedAt, steps, csv0, json0, first>>

\* lines 50-52
WriteCsv ==
    /\ pc = "to_csv"
    /\ csvFile' = [state |-> "written", content |-> to_csv(df)]
    /\ steps' = Append(steps, "csv")
    /\ pc' = "personas"
    /\ UNCHANGED <<run, force, source, tieBreak, loadCall, df, jsonFile, personas,
                   all_profiles, err, failedAt, csv0, json0, first>>

\* line 51 raises: the file cannot be opened (it stays as it was) or the write
\* breaks off (it is left incomplete)
WriteCsvFail ==
    /\ pc = "to_csv"
    /\ \E opened \in BOOLEAN : csvFile' = IF opened THEN PartialCsv ELSE csvFile
    /\ Raise("IOError")
    /\ UNCHANGED <<run, force, source, tieBreak, loadCall, df, jsonFile, personas,
                   all_profiles, steps, csv0, json0, first>>

\* lines 55-58: df['persona'] is looked up and printed
ShowPersonas ==
    /\ pc = "personas"
    /\ "persona" \in Range(df.columns)
    /\ pc' = "generate"
    /\ UNCHANGED <<run, force, source, tieBreak, loadCall, df, csvFile, jsonFile,
                   personas, all_profiles, err, failedAt, steps, csv0, json0, first>>

\* as if a missing column 'persona' were tolerated and an empty store written
ShowPersonasSkip ==
    /\ pc = "personas"
    /\ "persona" \notin Range(df.columns)
    /\ pc' = "dump"
    /\ UNCHANGED <<run, force, source, tieBreak, loadCall, df, csvFile, jsonFile,
                   personas, all_profiles, err, failedAt, steps, csv0, json0, first>>

\* line 55 raises KeyError: there is no column 'persona'
ShowPersonasFail ==
    /\ pc = "personas"
    /\ "persona" \notin Range(df.columns)
    /\ Raise("KeyError")
    /\ UNCHANGED <<run, force, source, tieBreak, loadCall, df, csvFile, jsonFile,
                   personas, all_profiles, steps, csv0, json0, first>>

\* as if all_profiles started from the JSON file of an earlier run
GenerateStartMerging ==
    /\ pc = "generate"
    /\ personas' = sorted(unique(Column(df, "persona")))
    /\ all_profiles' = IF jsonFile.state = "written" THEN jsonFile.content ELSE <<>>
    /\ steps' = Append(steps, "aggregate")
    /\ pc' = IF personas' = <<>> THEN "dump" ELSE "loop"
    /\ UNCHANGED <<run, force, source, tieBreak, loadCall, df, csvFile, jsonFile,
                   err, failedAt, csv0, json0, first>>

\* lines 61-73: generate_profiles is entered, the loop is set up
GenerateStart ==
    /\ pc = "generate"
    /\ personas' = sorted(unique(Column(df, "persona")))
    /\ all_profiles' = <<>>
    /\ steps' = Append(steps, "aggregate")
    /\ pc' = IF personas' = <<>> THEN "dump" ELSE "loop"
    /\ UNCHANGED <<run, force, source, tieBreak, loadCall, df, csvFile, jsonFile,
                   err, failedAt, csv0, json0, first>>

\* lines 73-102: one iteration of the loop over the sorted personas
ProcessPersona ==
    /\ pc = "loop"
    /\ {"url", "visit_time"} \subseteq Range(df.columns)
    /\ all_profiles' = DictSet(all_profiles, lower(Head(personas)),
                               ProfileData(df, Head(personas), tieBreak))
    /\ personas' = Tail(personas)
    /\ pc' = IF personas' = <<>> THEN "dump" ELSE "loop"
    /\ UNCHANGED <<run, force, source, tieBreak, loadCall, df, csvFile, jsonFile,
                   err, failedAt, steps, csv0, json0, first>>

\* as if a failed aggregation put the CSV file back as the run found it
ProcessPersonaFailRollback ==
    /\ pc = "loop"
    /\ ~({"url", "visit_time"} \subseteq Range(df.columns))
    /\ csvFile' = csv0
    /\ Raise("KeyError")
    /\ UNCHANGED <<run, force, source, tieBreak, loadCall, df, jsonFile,
                   personas, all_profiles, steps, csv0, json0, first>>

\* line 81 or line 85 raises KeyError: there is no column 'url' or 'visit_time'
ProcessPersonaFail ==
    /\ pc = "loop"
    /\ ~({"url", "visit_time"} \subseteq Range(df.columns))
    /\ Raise("KeyError")
    /\ UNCHANGED <<run, force, source, tieBreak, loadCall, df, csvFile, jsonFile,
                   personas, all_profiles, steps, csv0, json0, first>>

\* lines 105-109
WriteJson ==
    /\ pc = "dump"
    /\ jsonFile' = [state |-> "written", content |-> all_profiles]
    /\ steps' = Append(steps, "json")
    /\ pc' = "done"
    /\ UNCHANGED <<run, force, source, tieBreak, loadCall, df, csvFile, personas,
                   all_profiles, err, failedAt, csv0, json0, first>>

\* line 106 raises (the file stays as it was) or line 107 breaks off (the file,
\* already truncated by open, is left incomplete)
WriteJsonFail ==
    /\ pc = "dump"
    /\ \E opened \in BOOLEAN : jsonFile' = IF opened THEN PartialJson ELSE jsonFile
    /\ Raise("IOError")
    /\ UNCHANGED <<run, force, source, tieBreak, loadCall, df, csvFile, personas,
                   all_profiles, steps, csv0, json0, first>>

\* the script is invoked a second time, the remote dataset being unchanged
Rerun ==
    /\ pc = "done"
    /\ run = 1
    /\ run' = 2
    /\ first' = [force |-> force, loadCall |-> loadCall, csv |-> csvFile, json |-> jsonFile]
    /\ csv0' = csvFile
    /\ json0' = jsonFile
    /\ pc' = "main"
    /\ force' = FALSE
    /\ loadCall' = NoCall
    /\ df' = NoFrame
    /\ personas' = <<>>
    /\ all_profiles' = <<>>
    /\ steps' = <<>>
    /\ UNCHANGED <<source, tieBreak, csvFile, jsonFile, err, failedAt>>

Next ==
    \/ Main
    \/ Load
    \/ LoadFail
    \/ Project
    \/ WriteCsv
    \/ WriteCsvFail
    \/ ShowPersonas
    \/ ShowPersonasFail
    \/ GenerateStart
    \/ ProcessPersona
    \/ ProcessPersonaFail
    \/ WriteJson
    \/ WriteJsonFail
    \/ Rerun

Spec == Init /\ [][Next]_vars

----------------------------------------------------------------------------
(* What the properties speak about *)

SourceHas(col) == col \in Range(source.columns)

SourceLabels == IF SourceHas("persona") THEN Range(Column(source, "persona")) ELSE {}

\* the source labels that lower-case to a key, and the last of them in str order
LabelsFor(key) == {l \in SourceLabels : lower(l) = key}

LastLabel(key) ==
    CHOOSE l \in LabelsFor(key) : \A m \in LabelsFor(key) : m = l \/ StrLess(m, l)

FirstLabel(key) ==
    CHOOSE l \in LabelsFor(key) : \A m \in LabelsFor(key) : m = l \/ StrLess(l, m)

\* the source Records (by position) of a label and a URL
RecordsOf(label, url) ==
    {n \in DOMAIN source.rows :
        source.rows[n]["persona"] = label /\ source.rows[n]["url"] = url}

\* the source Records whose label matches a key case-insensitively
RecordsMatching(key, url) ==
    {n \in DOMAIN source.rows :
        lower(source.rows[n]["persona"]) = key /\ source.rows[n]["url"] = url}

Did(step) == step \in Range(steps)

\* the ProfileStore generate_profiles has produced and written
Produced == pc = "done"

ProfileStore == jsonFile.content

PipelineOrder == <<"load", "csv", "aggregate", "json">>

Position(s, x) == CHOOSE i \in DOMAIN s : s[i] = x

----------------------------------------------------------------------------
(* C1 as stated: visits is the number of source Records whose label matches  *)
(* the key case-insensitively and whose URL is the entry's; bookmarked iff   *)
(* visits >= 3.                                                              *)
C1_VisitsCountCaseInsensitive ==
    Produced =>
        \A i \in DOMAIN ProfileStore : \A j \in DOMAIN ProfileStore[i].value :
            LET key == ProfileStore[i].key
                e   == ProfileStore[i].value[j]
            IN  /\ e.value.visits = Cardinality(RecordsMatching(key, e.key))
                /\ e.value.bookmarked = (e.value.visits >= 3)

(* C1 as amended: for every (key, URL) pair of the ProfileStore, visits is   *)
(* the number of source Records with that URL whose label is the last, in    *)
(* str order, of the source labels that lower-case to the key; bookmarked is *)
(* true iff visits >= 3 (false at 2, true at 3).                             *)
C1_VisitsCountOfLastLabel ==
    Produced =>
        \A i \in DOMAIN ProfileStore : \A j \in DOMAIN ProfileStore[i].value :
            LET key == ProfileStore[i].key
                e   == ProfileStore[i].value[j]
            IN  /\ LabelsFor(key) # {}
                /\ e.value.visits = Cardinality(RecordsOf(LastLabel(key), e.key))
                /\ e.value.bookmarked = (e.value.visits >= 3)
                /\ (e.value.visits = 2 => e.value.bookmarked = FALSE)
                /\ (e.value.visits = 3 => e.value.bookmarked = TRUE)

C1_Witness ==
    /\ Produced
    /\ \E i \in DOMAIN ProfileStore : \E j \in DOMAIN ProfileStore[i].value :
          /\ ProfileStore[i].value[j].value.visits = 3
          /\ ProfileStore[i].value[j].value.bookmarked

----------------------------------------------------------------------------
(* C2 as stated: the header of the written CSV is the intersection of the    *)
(* wanted columns with the table's schema, in the order of the table's       *)
(* schema, and a missing wanted column raises no error.                      *)
C2_HeaderInSchemaOrder ==
    /\ failedAt # "project"
    /\ Did("csv") =>
          LET header == csvFile.content.header
          IN  /\ Range(header) = Range(columns_to_keep) \cap Range(source.columns)
              /\ \A i, j \in DOMAIN header :
                    i < j => Position(source.columns, header[i])
                                < Position(source.columns, header[j])

(* C2 as amended: the header of the written CSV is the intersection of the   *)
(* wanted columns with the table's schema, each column once, in the order of *)
(* the wanted list, and a missing wanted column raises no error.             *)
C2_HeaderInWantedOrder ==
    /\ failedAt # "project"
    /\ Did("csv") =>
          LET header == csvFile.content.header
          IN  /\ csvFile.state = "written"
              /\ Range(header) = Range(columns_to_keep) \cap Range(source.columns)
              /\ \A i, j \in DOMAIN header :
                    i < j => Position(columns_to_keep, header[i])
                                < Position(columns_to_keep, header[j])

C2_Witness ==
    /\ Did("csv")
    /\ source.columns = <<"url", "id", "persona">>
    /\ csvFile.content.header = <<"persona", "url">>

----------------------------------------------------------------------------
(* C3: once generate_profiles has gone through all labels, the keys of the   *)
(* ProfileStore are the lower-cased source labels, each key once, also when  *)
(* two labels collide after lower-casing.                                    *)
C3_KeysAreLoweredLabels ==
    pc \in {"dump", "done"} =>
        /\ Range(DictKeys(all_profiles)) = {lower(l) : l \in SourceLabels}
        /\ \A i, j \in DOMAIN all_profiles :
              all_profiles[i].key = all_profiles[j].key => i = j
        /\ (Produced => ProfileStore = all_profiles)

C3_Witness ==
    /\ Produced
    /\ SourceLabels = {L_Te, L_st, L_te}
    /\ Len(ProfileStore) = 2

----------------------------------------------------------------------------
(* C4: for every (category, URL) group of the ProfileStore, lastVisitTime is *)
(* the greatest visit_time of the group in str order, and title and          *)
(* lastVisitTime come from one Record of the group that has this greatest    *)
(* visit_time; title is "" when there is no title column.                    *)
C4_LatestByStringOrder ==
    Produced =>
        \A i \in DOMAIN ProfileStore : \A j \in DOMAIN ProfileStore[i].value :
            LET e     == ProfileStore[i].value[j]
                group == RecordsOf(LastLabel(ProfileStore[i].key), e.key)
            IN  \E n \in group :
                    /\ \A m \in group : ~StrLess(source.rows[n]["visit_time"],
                                                 source.rows[m]["visit_time"])
                    /\ e.value.lastVisitTime = source.rows[n]["visit_time"]
                    /\ e.value.title = IF SourceHas("title")
                                       THEN source.rows[n]["title"] ELSE <<>>

C4_Witness ==
    /\ Produced
    /\ source.rows = <<Row(L_st, U_x, T_9, S_A), Row(L_st, U_x, T_10, S_B)>>
    /\ ProfileStore[1].value[1].value.lastVisitTime = T_9
    /\ ProfileStore[1].value[1].value.title = S_A

----------------------------------------------------------------------------
(* C5: the steps of a run are a prefix of load, write CSV, aggregate, write  *)
(* JSON; a failed retrieval leaves both files as the run found them; a       *)
(* failure after the CSV write and before the JSON write leaves the new CSV  *)
(* in place and the JSON file as the run found it; the JSON file is written  *)
(* only in a run that has written the CSV.                                   *)
C5_AbortWithoutRollback ==
    /\ \E n \in 0..Len(PipelineOrder) : steps = SubSeq(PipelineOrder, 1, n)
    /\ (pc = "failed" => err # "" /\ ~ENABLED Next)
    /\ (err = "RetrievalError" => csvFile = csv0 /\ jsonFile = json0)
    /\ (pc = "failed" /\ failedAt \in {"personas", "generate", "loop"} =>
            /\ csvFile.state = "written"
            /\ Len(csvFile.content.rows) = Len(source.rows)
            /\ jsonFile = json0)
    /\ (Did("json") \/ jsonFile # json0 => Did("csv"))

C5_Witness ==
    /\ pc = "failed"
    /\ failedAt = "loop"
    /\ csv0 = AbsentCsv
    /\ csvFile.state = "written"
    /\ jsonFile = StaleJson

----------------------------------------------------------------------------
(* C6: a second run on the unchanged source writes the JSON the first run    *)
(* wrote; its top-level keys come in the str order of the source labels, the *)
(* URL keys of each category in ascending order, and nothing in it stems     *)
(* from the files the run found.                                             *)
C6_SecondRunSameJson ==
    run = 2 /\ Produced =>
        /\ jsonFile = first.json
        /\ \A i \in DOMAIN ProfileStore : LabelsFor(ProfileStore[i].key) # {}
        /\ \A i, j \in DOMAIN ProfileStore :
              i < j => StrLess(FirstLabel(ProfileStore[i].key),
                               FirstLabel(ProfileStore[j].key))
        /\ \A i \in DOMAIN ProfileStore :
              \A j, k \in DOMAIN ProfileStore[i].value :
                  j < k => StrLess(ProfileStore[i].value[j].key,
                                   ProfileStore[i].value[k].key)

C6_Witness ==
    /\ run = 2
    /\ Produced
    /\ DictKeys(ProfileStore) = <<L_te, L_st>>
    /\ \E i \in DOMAIN ProfileStore : Len(ProfileStore[i].value) = 2

----------------------------------------------------------------------------
----------------------------------------------------------------------------
(* C8: in every state, each URL under a key of all_profiles (and of the      *)
(* written JSON) is the URL of a source Record whose label equals the key    *)
(* case-insensitively.                                                       *)
C8_UrlsBelongToCategory ==
    /\ \A i \in DOMAIN all_profiles : \A j \in DOMAIN all_profiles[i].value :
          RecordsMatching(all_profiles[i].key, all_profiles[i].value[j].key) # {}
    /\ Did("json") =>
          \A i \in DOMAIN ProfileStore : \A j \in DOMAIN ProfileStore[i].value :
              RecordsMatching(ProfileStore[i].key, ProfileStore[i].value[j].key) # {}

C8_Witness ==
    /\ pc = "loop"
    /\ Len(all_profiles) = 1
    /\ \E n \in DOMAIN source.rows :
          /\ lower(source.rows[n]["persona"]) # all_profiles[1].key
          /\ ~DictHas(all_profiles[1].value, source.rows[n]["url"])

----------------------------------------------------------------------------
(* C9: without a persona column the projection raises nothing, the CSV is    *)
(* written with the narrowed schema, and only then the run ends with a       *)
(* KeyError, before any aggregation and without writing the JSON file.       *)
C9_NoPersonaColumn ==
    ~SourceHas("persona") =>
        /\ failedAt # "project"
        /\ ~Did("aggregate")
        /\ ~Did("json")
        /\ jsonFile = json0
        /\ pc \notin {"generate", "loop", "dump", "done"}
        /\ (err = "KeyError" =>
                /\ failedAt = "personas"
                /\ steps = <<"load", "csv">>
                /\ csvFile.state = "written"
                /\ Range(csvFile.content.header)
                      = Range(columns_to_keep) \cap Range(source.columns))
        /\ (pc = "failed" => err \in {"RetrievalError", "IOError", "KeyError"})
        /\ (Did("csv") /\ pc # "personas" => pc = "failed" /\ err = "KeyError")

C9_Witness ==
    /\ source.columns = <<"id", "url", "title">>
    /\ pc = "failed"
    /\ err = "KeyError"
    /\ csvFile.content.header = <<"url", "title">>
    /\ jsonFile = AbsentJson

----------------------------------------------------------------------------
(* C10: when several source labels lower-case to one key, the entry of that  *)
(* key holds the URLs and visit counts of the Records of the last of these   *)
(* labels only; the Records of the earlier labels add no URL and no visit.   *)
C10_CollisionOverwrites ==
    pc \in {"dump", "done"} =>
        \A i \in DOMAIN all_profiles :
            LET key     == all_profiles[i].key
                profile == all_profiles[i].value
            IN  Cardinality(LabelsFor(key)) >= 2 =>
                    /\ Range(DictKeys(profile))
                          = {u \in Urls : RecordsOf(LastLabel(key), u) # {}}
                    /\ \A j \in DOMAIN profile :
                          profile[j].value.visits
                              = Cardinality(RecordsOf(LastLabel(key), profile[j].key))

C10_Witness ==
    /\ Produced
    /\ source.rows = <<Row(L_te, U_y, T_9, S_A), Row(L_Te, U_x, T_9, S_A),
                       Row(L_Te, U_y, T_9, S_A)>>
    /\ DictKeys(ProfileStore) = <<L_te>>
    /\ DictKeys(ProfileStore[1].value) = <<U_y>>
    /\ ProfileStore[1].value[1].value.visits = 1

====
